---- MODULE Spec2Model ----
(***************************************************************************)
(* Model of src/app.py: the Real-ESRGAN-ncnn-vulkan upscaling service.     *)
(* UpscalerService (binary probe, ncnn subprocess path with two temporary  *)
(* files, Lanczos fallback), process_image (decode, cap at 2048, upscale,  *)
(* encode) and the two upload endpoints.                                   *)
(***************************************************************************)
EXTENDS Integers, Sequences, FiniteSets, TLC

(***************************************************************************)
(* IEEE-754 binary64 arithmetic as process_image uses it (lines 106-107):  *)
(*   ratio = max_size / max(image.size)     correctly rounded quotient     *)
(*   int(dim * ratio)                       rounded product, truncated     *)
(* A 53-bit significand is held in four limbs, sig = t*2^42 + a*2^28 +     *)
(* b*2^14 + c with 2^10 <= t < 2^11 and a, b, c < 2^14; an edge is split   *)
(* into two limbs, and the exact product into six.  Every intermediate     *)
(* fits a 32-bit integer for edges below 2^28, which is every edge of an   *)
(* image Image.open accepts (MaxPixels).                                   *)
(***************************************************************************)
LimbBits == 14
TopBits  == 11
SigBits  == 53

RECURSIVE Pow2(_)
Pow2(n) == IF n = 0 THEN 1 ELSE 2 * Pow2(n - 1)

Limb == Pow2(LimbBits)

\* smallest k >= 0 with x * 2^k >= m   (x >= 1)
RECURSIVE LeadShift(_, _)
LeadShift(x, m) == IF x >= m THEN 0 ELSE 1 + LeadShift(2 * x, m)

\* the next n binary digits of r / m (0 <= r < m < 2^28), and the
\* remainder; ChunkBits digits at a time, so that r * 2^ChunkBits fits
ChunkBits == 3

RECURSIVE DivLimb(_, _, _)
DivLimb(r, m, n) ==
    IF n <= ChunkBits
    THEN << (r * Pow2(n)) \div m, (r * Pow2(n)) % m >>
    ELSE LET d  == DivLimb(r, m, n - ChunkBits)
             r2 == d[2] * Pow2(ChunkBits)
         IN  << d[1] * Pow2(ChunkBits) + r2 \div m, r2 % m >>

\* sig + 1, with carries
IncSig(f) ==
    IF f.c + 1 < Limb THEN [f EXCEPT !.c = f.c + 1]
    ELSE IF f.b + 1 < Limb THEN [f EXCEPT !.c = 0, !.b = f.b + 1]
    ELSE IF f.a + 1 < Limb THEN [f EXCEPT !.c = 0, !.b = 0, !.a = f.a + 1]
    ELSE [f EXCEPT !.c = 0, !.b = 0, !.a = 0, !.t = f.t + 1]

\* fl(x / m) for integers 1 <= x < m < 2^28: the quotient x / m rounded to
\* 53 significant bits, ties to even; its value is sig * 2^-(k + 52)
FloatDiv(x, m) ==
    LET k  == LeadShift(x, m)
        n0 == x * Pow2(k)                        \* m <= n0 < 2m
        dt == DivLimb(n0 - m, m, TopBits - 1)    \* the leading digit is 1
        da == DivLimb(dt[2], m, LimbBits)
        db == DivLimb(da[2], m, LimbBits)
        dc == DivLimb(db[2], m, LimbBits)
        f  == [t |-> Pow2(TopBits - 1) + dt[1], a |-> da[1], b |-> db[1],
               c |-> dc[1], k |-> k]
        up == 2 * dc[2] > m \/ (2 * dc[2] = m /\ dc[1] % 2 = 1)
    IN  IF up THEN IncSig(f) ELSE f

\* the exact product dim * sig, least significant limb first
ProductLimbs(dim, f) ==
    LET d0 == dim % Limb
        d1 == dim \div Limb
        s0 == f.c * d0
        s1 == f.b * d0 + f.c * d1 + s0 \div Limb
        s2 == f.a * d0 + f.b * d1 + s1 \div Limb
        s3 == f.t * d0 + f.a * d1 + s2 \div Limb
        s4 == f.t * d1 + s3 \div Limb
    IN  << s0 % Limb, s1 % Limb, s2 % Limb, s3 % Limb, s4 % Limb,
           s4 \div Limb >>

\* the binary digits of a number given by its limbs, least significant first
Bits(p) ==
    [ i \in 1..(LimbBits * Len(p)) |->
        (p[((i - 1) \div LimbBits) + 1] \div Pow2((i - 1) % LimbBits)) % 2 ]

\* the number whose digits are bits[lo..hi]
RECURSIVE BitsValue(_, _, _)
BitsValue(bits, lo, hi) ==
    IF lo > hi THEN 0 ELSE bits[lo] + 2 * BitsValue(bits, lo + 1, hi)

\* the position of the leading 1 among bits[1..i] (0 when there is none)
RECURSIVE TopBit(_, _)
TopBit(bits, i) ==
    IF i = 0 \/ bits[i] = 1 THEN i ELSE TopBit(bits, i - 1)

\* int(dim * f) for an integer 1 <= dim < 2^28: the exact product dim * sig
\* rounded to 53 significant bits (ties to even), scaled by 2^-(k + 52),
\* truncated toward zero.  The rounding changes the integer part only when
\* it carries through every kept digit of the fraction.
FloatMulTrunc(dim, f) ==
    LET bits   == Bits(ProductLimbs(dim, f))
        n      == Len(bits)
        len    == TopBit(bits, n)                 \* digits of the product
        s      == len - SigBits                   \* digits dropped
        frac   == f.k + SigBits - 1               \* digits of the fraction
        whole  == BitsValue(bits, frac + 1, n)
        up     == /\ s > 0
                  /\ bits[s] = 1
                  /\ \/ \E i \in 1..(s - 1) : bits[i] = 1
                     \/ bits[s + 1] = 1
        carry  == up /\ \A i \in (s + 1)..frac : bits[i] = 1
    IN  IF carry THEN whole + 1 ELSE whole

(***************************************************************************)
(* process_image, lines 104-108: cap the longest edge at max_size.         *)
(***************************************************************************)
max_size == 2048

Max(a, b) == IF a >= b THEN a ELSE b

\* dim * max_size / m in whole numbers, for 0 <= dim <= m: quotient, rest
ScaledQuot(dim, m) ==
    LET d == DivLimb(dim % m, m, LeadShift(1, max_size))
    IN  << (dim \div m) * max_size + d[1], d[2] >>

\* variant: each new dimension rounded to the nearest integer (half up)
NewSizeRounded(w, h) ==
    LET m  == Max(w, h)
        qw == ScaledQuot(w, m)
        qh == ScaledQuot(h, m)
    IN  << qw[1] + (IF 2 * qw[2] >= m THEN 1 ELSE 0),
           qh[1] + (IF 2 * qh[2] >= m THEN 1 ELSE 0) >>

NewSize(w, h) ==
    LET ratio == FloatDiv(max_size, Max(w, h))
    IN  << FloatMulTrunc(w, ratio), FloatMulTrunc(h, ratio) >>

\* variant: the cap is tested against the shorter edge
NormalizeByShortEdge(w, h) ==
    IF (IF w <= h THEN w ELSE h) > max_size THEN NewSize(w, h) ELSE << w, h >>

Normalize(w, h) ==
    IF Max(w, h) > max_size THEN NewSize(w, h) ELSE << w, h >>

(***************************************************************************)
(* Bounds of the model.                                                    *)
(***************************************************************************)
NumCalls    == 2      \* request slots (requests that may be in progress)
MaxRequests == 2      \* requests served in one behaviour
NumNames    == 4      \* temporary-file names the name generator can draw

Calls == 1..NumCalls
Names == 1..NumNames

(***************************************************************************)
(* Inputs.                                                                 *)
(***************************************************************************)
\* sizes of the images a payload decodes to
Sizes == { <<4000, 1000>>, <<5000, 1>> }

\* a request payload: bytes that decode to an image of some size, or do not
Payloads ==
    { [ok |-> FALSE, w |-> 0, h |-> 0] }
        \cup { [ok |-> TRUE, w |-> sz[1], h |-> sz[2]] : sz \in Sizes }

\* Base64Request.scale is Optional[int]: JSON null is the value ScaleNull
ScaleNull == 0 - 1
\* scales a request asks for: on each endpoint an accepted and a refused
\* one; 2 selects the video model, 4 the general model.  The scale 8 goes
\* through upscale_image in the direct calls below
QueryScales == {2, 3}
BodyScales  == {3, 4, ScaleNull}

\* images and scales a caller may hand to upscale_image directly; rgb = FALSE
\* is an image whose colour model PNG cannot encode (the caller broke the
\* RGB precondition); the scales are those no endpoint lets through
DirectImages ==
    { [rgb |-> m, w |-> sz[1], h |-> sz[2]] :
          m \in BOOLEAN, sz \in { <<64, 48>> } }
DirectScales == {3, 8}

\* magnification an external binary may actually apply to its input: the
\* one asked for with -s, or the one the x4 network is built for
Magnifications(scale, model) ==
    {scale} \cup (IF model = "realesrgan-x4plus" THEN {4} ELSE {})

(***************************************************************************)
(* UpscalerService state and the file system under temp_dir.               *)
(***************************************************************************)
None       == "None"
BinaryPath == "/app/realesrgan-ncnn-vulkan"

NoFile == [owner |-> 0, kind |-> "none", w |-> 0, h |-> 0]

VARIABLES
    binaryOnDisk,        \* os.path.exists(BinaryPath) at start-up
    started,             \* upscaler = UpscalerService() has run (line 98)
    realesrgan_binary,   \* UpscalerService.realesrgan_binary
    fs,                  \* Names -> file: owner (creating request), content
    nextId,              \* id of the next request
    foreignUnlinks,      \* files a call removed that belong to another call
                         \* still inside _upscale_ncnn
    call                 \* Calls -> the request handled in that slot

vars == << binaryOnDisk, started, realesrgan_binary, fs, nextId,
           foreignUnlinks, call >>

\* exceptions (all subclasses of Exception)
EngineFailures ==
    { "TmpError", "SaveError", "ExecError", "NcnnFailed", "Timeout",
      "NoOutput", "OutputUndecodable", "StreamUndecodable", "UnlinkError" }
ProgrammingErrors == { "BadImage" }
ExceptionKinds ==
    EngineFailures \cup ProgrammingErrors
        \cup { "FallbackError", "DecodeError", "ResizeError", "EncodeError",
               "AttributeError", "UnicodeEncodeError" }

Idle ==
    [ pc |-> "idle", id |-> 0, entry |-> "none",
      ctype |-> "image/png", filename |-> << >>, b64Ok |-> TRUE,
      scale |-> 0,
      payload |-> [ok |-> FALSE, w |-> 0, h |-> 0],
      new_size |-> << 0, 0 >>, rgb |-> TRUE, w |-> 0, h |-> 0,
      tmpIn |-> 0, tmpOut |-> 0, model |-> "", retcode |-> 0,
      exc |-> "none", tryExc |-> "none",
      res |-> << 0, 0 >>, resBy |-> "none", status |-> 0,
      nProc |-> 0, nDec |-> 0, nUp |-> 0, nTmp |-> 0, nRun |-> 0,
      nFb |-> 0, ncnnExited |-> FALSE,
      engine |-> "", binary_found |-> FALSE, cmd |-> << >> ]

Init ==
    /\ binaryOnDisk \in BOOLEAN
    /\ started = FALSE
    /\ realesrgan_binary = None
    /\ fs = [n \in Names |-> NoFile]
    /\ nextId = 1
    /\ foreignUnlinks = 0
    /\ call = [c \in Calls |-> Idle]

Set(c, r) == call' = [call EXCEPT ![c] = r]

(***************************************************************************)
(* UpscalerService.__init__ and _check_binary (lines 27-38).               *)
(***************************************************************************)
\* variant: the path is kept although the binary is missing
CheckBinaryKeepsPath(path, exists) == path

CheckBinary(path, exists) == IF ~exists THEN None ELSE path

Construct ==
    /\ ~started
    /\ started' = TRUE
    /\ realesrgan_binary' = CheckBinary(BinaryPath, binaryOnDisk)
    /\ UNCHANGED << binaryOnDisk, fs, nextId, foreignUnlinks, call >>

(***************************************************************************)
(* The endpoints (lines 134-164).                                          *)
(***************************************************************************)
ValidScale(scale) == scale \in {2, 4, 8}

BadRequest  == 400
Success     == 200
\* what the framework answers when a handler raises anything that is not an
\* HTTPException
ServerError == 500

\* file.content_type of an upload.  A part without a Content-Type header has
\* the content type "" or None, depending on the framework's version.
ContentTypes == { "image/png", "image", "text/plain", "", None }

\* ct.startswith('image/'), for a ct that is a string
StartsWithImage(ct) == Len(ct) >= 6 /\ SubSeq(ct, 1, 6) = "image/"

\* file.filename of an upload, as the sequence of its characters' code
\* points: "a" and the one character U+56FE
Filenames == { << 97 >>, << 22270 >> }

\* str.encode('latin-1'), as the response does with each header value: the
\* bytes, one for a character, or UnicodeEncodeError (ok is FALSE) for a
\* character that has none
EncodeLatin1(str) ==
    IF \A i \in 1..Len(str) : str[i] <= 255
    THEN [ok |-> TRUE, bytes |-> str]
    ELSE [ok |-> FALSE, bytes |-> << >>]

\* f"attachment; filename=upscaled_{file.filename}", line 148
ContentDisposition(name) ==
    << 97, 116, 116, 97, 99, 104, 109, 101, 110, 116, 59, 32,
       102, 105, 108, 101, 110, 97, 109, 101, 61,
       117, 112, 115, 99, 97, 108, 101, 100, 95 >> \o name

\* a request is handled in the first free slot
NewRequest(c) ==
    /\ started
    /\ call[c].pc = "idle"
    /\ \A d \in 1..(c - 1) : call[d].pc # "idle"
    /\ nextId <= MaxRequests
    /\ nextId' = nextId + 1

\* POST /upscale/binary, lines 135-142: the two tests, up to the await of
\* file.read(), where the handler gives the event loop to other requests.
\* A content type of None has no startswith: AttributeError leaves the
\* handler, before the scale is looked at.
UpscaleBinary(c) ==
    /\ NewRequest(c)
    /\ \E ct \in ContentTypes, sc \in QueryScales, fn \in Filenames :
          LET r == [Idle EXCEPT !.id = nextId, !.entry = "binary",
                                !.ctype = ct, !.filename = fn, !.scale = sc]
          IN  IF ct = None
              THEN Set(c, [r EXCEPT !.pc = "responded", !.status = ServerError,
                                    !.exc = "AttributeError"])
              ELSE IF ~StartsWithImage(ct)
              THEN Set(c, [r EXCEPT !.pc = "responded", !.status = BadRequest])
              ELSE IF ~ValidScale(sc)
              THEN Set(c, [r EXCEPT !.pc = "responded", !.status = BadRequest])
              ELSE Set(c, [r EXCEPT !.pc = "read"])
    /\ UNCHANGED << binaryOnDisk, started, realesrgan_binary, fs,
                    foreignUnlinks >>

\* lines 142-143: file.read() has delivered the upload's bytes, the handler
\* is resumed and calls process_image
ReadUpload(c) ==
    LET r == call[c]
    IN  /\ r.pc = "read"
        /\ \E pl \in Payloads :
              Set(c, [r EXCEPT !.pc = "process", !.payload = pl, !.nProc = 1])
        /\ UNCHANGED << binaryOnDisk, started, realesrgan_binary, fs, nextId,
                        foreignUnlinks >>

\* POST /upscale/base64
UpscaleBase64(c) ==
    /\ NewRequest(c)
    /\ \E b64 \in BOOLEAN, sc \in BodyScales, pl \in Payloads :
          LET r == [Idle EXCEPT !.id = nextId, !.entry = "base64",
                                !.b64Ok = b64, !.scale = sc, !.payload = pl]
          IN  IF ~ValidScale(sc)
              THEN Set(c, [r EXCEPT !.pc = "responded", !.status = BadRequest])
              ELSE IF ~b64
              THEN Set(c, [r EXCEPT !.pc = "responded", !.status = BadRequest])
              ELSE Set(c, [r EXCEPT !.pc = "process", !.nProc = 1])
    /\ UNCHANGED << binaryOnDisk, started, realesrgan_binary, fs,
                    foreignUnlinks >>

\* a caller invokes upscaler.upscale_image(image, scale) itself
DirectUpscale(c, images, scales) ==
    /\ NewRequest(c)
    /\ \E im \in images, sc \in scales :
          Set(c, [Idle EXCEPT !.id = nextId, !.entry = "direct", !.scale = sc,
                              !.rgb = im.rgb, !.w = im.w, !.h = im.h,
                              !.pc = "upscale", !.nUp = 1])
    /\ UNCHANGED << binaryOnDisk, started, realesrgan_binary, fs,
                    foreignUnlinks >>

\* GET /health (lines 126-132): reports the engine, changes nothing
EngineName(bin) ==
    IF bin # None THEN "Real-ESRGAN-ncnn-vulkan" ELSE "Fallback"

Health(c) ==
    /\ NewRequest(c)
    /\ Set(c, [Idle EXCEPT !.id = nextId, !.entry = "health",
                           !.pc = "responded", !.status = Success,
                           !.engine = EngineName(realesrgan_binary),
                           !.binary_found = (realesrgan_binary # None)])
    /\ UNCHANGED << binaryOnDisk, started, realesrgan_binary, fs,
                    foreignUnlinks >>

(***************************************************************************)
(* process_image (lines 100-120): decode, normalise, hand to upscale_image.*)
(***************************************************************************)
\* variant: a payload that does not decode is replaced by a 1x1 image
DecodeLenient(pl) ==
    IF pl.ok THEN [ok |-> TRUE, w |-> pl.w, h |-> pl.h]
    ELSE [ok |-> TRUE, w |-> 1, h |-> 1]

\* Image.open(io.BytesIO(image_data)).convert('RGB')
Decode(pl) ==
    IF pl.ok THEN [ok |-> TRUE, w |-> pl.w, h |-> pl.h]
    ELSE [ok |-> FALSE, w |-> 0, h |-> 0]

\* Image.resize refuses a size with a zero edge
Resizable(sz) == sz[1] >= 1 /\ sz[2] >= 1

ProcessImage(c) ==
    LET r   == call[c]
        img == Decode(r.payload)
        new == Normalize(img.w, img.h)
    IN  /\ r.pc = "process"
        /\ IF ~img.ok
           THEN Set(c, [r EXCEPT !.pc = "failed", !.nDec = r.nDec + 1,
                                 !.exc = "DecodeError"])
           ELSE IF Max(img.w, img.h) > max_size /\ ~Resizable(new)
           THEN Set(c, [r EXCEPT !.pc = "failed", !.nDec = r.nDec + 1,
                                 !.new_size = new,
                                 !.exc = "ResizeError"])
           ELSE Set(c, [r EXCEPT !.pc = "upscale", !.nDec = r.nDec + 1,
                                 !.new_size = IF Max(img.w, img.h) > max_size
                                              THEN new ELSE << 0, 0 >>,
                                 !.w = new[1], !.h = new[2],
                                 !.nUp = r.nUp + 1])
        /\ UNCHANGED << binaryOnDisk, started, realesrgan_binary, fs, nextId,
                        foreignUnlinks >>

(***************************************************************************)
(* UpscalerService.upscale_image (lines 40-49).                            *)
(***************************************************************************)
UseBinary(bin) == bin # None

UpscaleDispatch(c) ==
    LET r == call[c]
    IN  /\ r.pc = "upscale"
        /\ IF UseBinary(realesrgan_binary)
           THEN Set(c, [r EXCEPT !.pc = "ncnn_in"])
           ELSE Set(c, [r EXCEPT !.pc = "fb_try"])
        /\ UNCHANGED << binaryOnDisk, started, realesrgan_binary, fs, nextId,
                        foreignUnlinks >>

\* variant: only the width is multiplied
FallbackSizeWidthOnly(w, h, scale) == << w * scale, h >>

\* _upscale_fallback (lines 93-96)
FallbackSize(w, h, scale) == << w * scale, h * scale >>

\* variant: the handler takes only the failure raised for a non-zero exit
IsProcessFailure(e) == e = "NcnnFailed"

\* the handler `except Exception` (line 46) takes every exception kind
IsException(e) == e \in ExceptionKinds

\* line 45: the fallback inside the try block, binary unavailable;
\* ok = FALSE is a resize that raises (the process is out of memory)
FallbackTry(c) ==
    LET r == call[c]
    IN  /\ r.pc = "fb_try"
        /\ \E ok \in BOOLEAN :
              IF ok
              THEN Set(c, [r EXCEPT !.pc = "returned", !.nFb = r.nFb + 1,
                                    !.res = FallbackSize(r.w, r.h, r.scale),
                                    !.resBy = "fallback"])
              ELSE Set(c, [r EXCEPT !.pc = "except", !.nFb = r.nFb + 1,
                                    !.exc = "FallbackError",
                                    !.tryExc = "FallbackError"])
        /\ UNCHANGED << binaryOnDisk, started, realesrgan_binary, fs, nextId,
                        foreignUnlinks >>

\* variant: a failure taken at line 46 also switches the service to
\* degraded mode
FallbackExceptDegrades(c) ==
    LET r == call[c]
    IN  /\ r.pc = "except"
        /\ \E ok \in BOOLEAN :
              IF ok
              THEN Set(c, [r EXCEPT !.pc = "returned", !.nFb = r.nFb + 1,
                                    !.exc = "none",
                                    !.res = << r.w * r.scale, r.h * r.scale >>,
                                    !.resBy = "fallback"])
              ELSE Set(c, [r EXCEPT !.pc = "raised", !.nFb = r.nFb + 1,
                                    !.exc = "FallbackError"])
        /\ realesrgan_binary' = None
        /\ UNCHANGED << binaryOnDisk, started, fs, nextId, foreignUnlinks >>

\* lines 46-49: whatever was raised inside the try block is logged and the
\* fallback is run; what the fallback raises leaves upscale_image
FallbackExcept(c) ==
    LET r == call[c]
    IN  /\ r.pc = "except"
        /\ IF ~IsException(r.exc)
           THEN Set(c, [r EXCEPT !.pc = "raised"])
           ELSE \E ok \in BOOLEAN :
              IF ok
              THEN Set(c, [r EXCEPT !.pc = "returned", !.nFb = r.nFb + 1,
                                    !.exc = "none",
                                    !.res = FallbackSize(r.w, r.h, r.scale),
                                    !.resBy = "fallback"])
              ELSE Set(c, [r EXCEPT !.pc = "raised", !.nFb = r.nFb + 1,
                                    !.exc = "FallbackError"])
        /\ UNCHANGED << binaryOnDisk, started, realesrgan_binary, fs, nextId,
                        foreignUnlinks >>

(***************************************************************************)
(* UpscalerService._upscale_ncnn (lines 51-83).                            *)
(***************************************************************************)
Exists(name) == fs[name].owner # 0

\* tempfile.NamedTemporaryFile(delete=False): a name no existing file has,
\* created exclusively
FreeNames == { n \in Names : ~Exists(n) }

EmptyFile(id) == [owner |-> id, kind |-> "empty", w |-> 0, h |-> 0]

\* line 52: the input file; a failure (OSError) leaves _upscale_ncnn
NcnnCreateInput(c) ==
    LET r == call[c]
    IN  /\ r.pc = "ncnn_in"
        /\ \/ \E n \in FreeNames :
                 /\ fs' = [fs EXCEPT ![n] = EmptyFile(r.id)]
                 /\ Set(c, [r EXCEPT !.pc = "ncnn_out", !.tmpIn = n,
                                     !.nTmp = r.nTmp + 1])
           \/ /\ Set(c, [r EXCEPT !.pc = "except", !.exc = "TmpError",
                                  !.tryExc = "TmpError",
                                  !.ncnnExited = TRUE])
              /\ UNCHANGED fs
        /\ UNCHANGED << binaryOnDisk, started, realesrgan_binary, nextId,
                        foreignUnlinks >>

\* line 53: the output file; a failure here is raised before the try block
\* of line 54 is entered, so the finally clause does not run
NcnnCreateOutput(c) ==
    LET r == call[c]
    IN  /\ r.pc = "ncnn_out"
        /\ \/ \E n \in FreeNames :
                 /\ fs' = [fs EXCEPT ![n] = EmptyFile(r.id)]
                 /\ Set(c, [r EXCEPT !.pc = "ncnn_save", !.tmpOut = n,
                                     !.nTmp = r.nTmp + 1])
           \/ /\ Set(c, [r EXCEPT !.pc = "except", !.exc = "TmpError",
                                  !.tryExc = "TmpError", !.tmpIn = 0,
                                  !.ncnnExited = TRUE])
              /\ UNCHANGED fs
        /\ UNCHANGED << binaryOnDisk, started, realesrgan_binary, nextId,
                        foreignUnlinks >>

\* writing by path: an existing file keeps its identity, a missing one is
\* created by the writer
Written(name, id, kind, w, h) ==
    [ owner |-> IF Exists(name) THEN fs[name].owner ELSE id,
      kind |-> kind, w |-> w, h |-> h ]

\* line 55: image.save(input_file.name, 'PNG')
NcnnSave(c) ==
    LET r == call[c]
    IN  /\ r.pc = "ncnn_save"
        /\ IF ~r.rgb
           THEN /\ Set(c, [r EXCEPT !.pc = "ncnn_finally", !.exc = "BadImage"])
                /\ fs' = [fs EXCEPT ![r.tmpIn] =
                                Written(r.tmpIn, r.id, "empty", 0, 0)]
           ELSE \/ /\ Set(c, [r EXCEPT !.pc = "ncnn_exec"])
                   /\ fs' = [fs EXCEPT ![r.tmpIn] =
                                   Written(r.tmpIn, r.id, "png", r.w, r.h)]
                \/ /\ Set(c, [r EXCEPT !.pc = "ncnn_finally",
                                       !.exc = "SaveError"])
                   /\ fs' = [fs EXCEPT ![r.tmpIn] =
                                   Written(r.tmpIn, r.id, "empty", 0, 0)]
        /\ UNCHANGED << binaryOnDisk, started, realesrgan_binary, nextId,
                        foreignUnlinks >>

\* variant: an unrecognized scale selects the video model
ModelNameDefaultVideo(scale) ==
    CASE scale = 4 -> "realesrgan-x4plus"
      [] scale = 8 -> "realesrgan-x4plus"
      [] OTHER     -> "realesr-animevideov3"

\* _get_model_name (lines 85-91)
ModelName(scale) ==
    CASE scale = 2 -> "realesr-animevideov3"
      [] scale = 4 -> "realesrgan-x4plus"
      [] scale = 8 -> "realesrgan-x4plus"
      [] OTHER     -> "realesrgan-x4plus"

\* str(n) for an integer: its decimal digits, with a sign when negative
Digit == << "0", "1", "2", "3", "4", "5", "6", "7", "8", "9" >>

RECURSIVE StrNat(_)
StrNat(n) ==
    IF n < 10 THEN Digit[n + 1] ELSE StrNat(n \div 10) \o Digit[(n % 10) + 1]

Str(n) == IF n < 0 THEN "-" \o StrNat(0 - n) ELSE StrNat(n)

\* input_file.name / output_file.name: the path of a temporary file
TmpPath(name) == "/tmp/tmp" \o Str(name) \o ".png"

\* lines 59-66
Cmd(bin, input, output, model_name, scale) ==
    << bin, "-i", TmpPath(input), "-o", TmpPath(output), "-n", model_name,
       "-s", Str(scale), "-f", "png" >>

\* lines 57-68: build the command line and start the binary
StartBinary(c) ==
    LET r          == call[c]
        model_name == ModelName(r.scale)
        cmd        == Cmd(realesrgan_binary, r.tmpIn, r.tmpOut, model_name,
                          r.scale)
    IN  /\ r.pc = "ncnn_exec"
        /\ \/ Set(c, [r EXCEPT !.pc = "ncnn_wait", !.nRun = r.nRun + 1,
                               !.model = model_name, !.cmd = cmd])
           \/ Set(c, [r EXCEPT !.pc = "ncnn_finally", !.exc = "ExecError",
                               !.model = model_name, !.cmd = cmd])
        /\ UNCHANGED << binaryOnDisk, started, realesrgan_binary, fs, nextId,
                        foreignUnlinks >>

\* What the external binary, given the two paths with -i and -o, may have
\* done to them while it ran: left a path alone, removed it, or written it;
\* an image it writes has the size of the magnification it applied, or any
\* other size (1x1 stands for those)
OutputSizes(r) ==
    { << r.w * k, r.h * k >> : k \in Magnifications(r.scale, r.model) }
        \cup { << 1, 1 >> }

InputAfter(r) == { fs[r.tmpIn], NoFile }

OutputAfter(r) ==
    { fs[r.tmpOut], NoFile, Written(r.tmpOut, r.id, "junk", 0, 0) }
        \cup { Written(r.tmpOut, r.id, "png", sz[1], sz[2]) :
                  sz \in OutputSizes(r) }

BinaryEffects(r) ==
    { [fs EXCEPT ![r.tmpIn] = i, ![r.tmpOut] = o] :
          i \in InputAfter(r), o \in OutputAfter(r) }

\* line 68, while subprocess.run waits: the binary, a process of its own,
\* does something to the two paths and keeps running
BinaryRuns(c) ==
    LET r == call[c]
    IN  /\ r.pc = "ncnn_wait"
        /\ \E f \in BinaryEffects(r) : fs' = f
        /\ UNCHANGED << binaryOnDisk, started, realesrgan_binary, nextId,
                        foreignUnlinks, call >>

\* line 68, the binary exits: subprocess.run returns its exit status, or,
\* text=True, raises UnicodeDecodeError when the captured output is not
\* valid text
BinaryExit(c) ==
    LET r == call[c]
    IN  /\ r.pc = "ncnn_wait"
        /\ \E f \in BinaryEffects(r) : fs' = f
        /\ \/ \E rc \in {0, 1} :
                 Set(c, [r EXCEPT !.pc = "ncnn_check", !.retcode = rc])
           \/ Set(c, [r EXCEPT !.pc = "ncnn_finally",
                               !.exc = "StreamUndecodable"])
        /\ UNCHANGED << binaryOnDisk, started, realesrgan_binary, nextId,
                        foreignUnlinks >>

\* variant: subprocess.run without a timeout, the wait ends only when the
\* binary exits
BinaryWaitsForever(c) ==
    /\ call[c].pc = "ncnn_wait"
    /\ FALSE
    /\ UNCHANGED vars

\* subprocess.run(..., timeout=60): the binary has not exited in time, it is
\* killed and TimeoutExpired is raised; what it did to the files stays
BinaryTimeout(c) ==
    LET r == call[c]
    IN  /\ r.pc = "ncnn_wait"
        /\ \E f \in BinaryEffects(r) : fs' = f
        /\ Set(c, [r EXCEPT !.pc = "ncnn_finally", !.exc = "Timeout"])
        /\ UNCHANGED << binaryOnDisk, started, realesrgan_binary, nextId,
                        foreignUnlinks >>

\* lines 70-72: the return code
NcnnCheck(c) ==
    LET r == call[c]
    IN  /\ r.pc = "ncnn_check"
        /\ IF r.retcode # 0
           THEN Set(c, [r EXCEPT !.pc = "ncnn_finally", !.exc = "NcnnFailed"])
           ELSE Set(c, [r EXCEPT !.pc = "ncnn_exists"])
        /\ UNCHANGED << binaryOnDisk, started, realesrgan_binary, fs, nextId,
                        foreignUnlinks >>

\* lines 74, 77-78: os.path.exists(output_file.name)
NcnnOutputExists(c) ==
    LET r == call[c]
    IN  /\ r.pc = "ncnn_exists"
        /\ IF Exists(r.tmpOut)
           THEN Set(c, [r EXCEPT !.pc = "ncnn_open"])
           ELSE Set(c, [r EXCEPT !.pc = "ncnn_finally", !.exc = "NoOutput"])
        /\ UNCHANGED << binaryOnDisk, started, realesrgan_binary, fs, nextId,
                        foreignUnlinks >>

\* lines 75-76: Image.open(output_file.name) on the path as it is now; it
\* raises for a file that is no image and for a path that has gone since
\* line 74
NcnnOpenOutput(c) ==
    LET r   == call[c]
        out == fs[r.tmpOut]
    IN  /\ r.pc = "ncnn_open"
        /\ IF Exists(r.tmpOut) /\ out.kind = "png"
           THEN Set(c, [r EXCEPT !.pc = "ncnn_finally",
                                 !.res = << out.w, out.h >>,
                                 !.resBy = "ncnn"])
           ELSE Set(c, [r EXCEPT !.pc = "ncnn_finally",
                                 !.exc = "OutputUndecodable"])
        /\ UNCHANGED << binaryOnDisk, started, realesrgan_binary, fs, nextId,
                        foreignUnlinks >>

\* a call is inside _upscale_ncnn and holds temporary files
InFlight(r) ==
    r.pc \in { "ncnn_out", "ncnn_save", "ncnn_exec", "ncnn_wait",
               "ncnn_check", "ncnn_exists", "ncnn_open", "ncnn_finally",
               "fin_unlink_in",
               "fin_exists_out", "fin_unlink_out" }

\* the finally clause is left and with it _upscale_ncnn, whose locals
\* (the two file objects, model_name, cmd, result) are gone: the result of
\* the try block is returned, or the pending exception goes on to
\* upscale_image
Left(r) ==
    LET out == [r EXCEPT !.tmpIn = 0, !.tmpOut = 0, !.model = "",
                         !.cmd = << >>, !.retcode = 0, !.ncnnExited = TRUE]
    IN  IF r.exc = "none"
        THEN [out EXCEPT !.pc = "returned"]
        ELSE [out EXCEPT !.pc = "except", !.tryExc = r.exc]

\* line 82: os.path.exists(temp_file), first for the input path
\* (pc = "ncnn_finally"), then for the output path
FinallyExists(c) ==
    LET r == call[c]
    IN  /\ r.pc \in {"ncnn_finally", "fin_exists_out"}
        /\ IF r.pc = "ncnn_finally"
           THEN IF Exists(r.tmpIn)
                THEN Set(c, [r EXCEPT !.pc = "fin_unlink_in"])
                ELSE Set(c, [r EXCEPT !.pc = "fin_exists_out"])
           ELSE IF Exists(r.tmpOut)
                THEN Set(c, [r EXCEPT !.pc = "fin_unlink_out"])
                ELSE Set(c, Left(r))
        /\ UNCHANGED << binaryOnDisk, started, realesrgan_binary, fs, nextId,
                        foreignUnlinks >>

\* line 83: os.unlink(temp_file).  A path that has gone since line 82 makes
\* it raise FileNotFoundError, which leaves the finally clause at once in
\* place of the result or the exception of the try block
FinallyUnlink(c) ==
    LET r       == call[c]
        n       == IF r.pc = "fin_unlink_in" THEN r.tmpIn ELSE r.tmpOut
        foreign == \E d \in Calls \ {c} :
                       InFlight(call[d]) /\ call[d].id = fs[n].owner
    IN  /\ r.pc \in {"fin_unlink_in", "fin_unlink_out"}
        /\ IF Exists(n)
           THEN /\ fs' = [fs EXCEPT ![n] = NoFile]
                /\ foreignUnlinks' = foreignUnlinks + (IF foreign THEN 1 ELSE 0)
                /\ IF r.pc = "fin_unlink_in"
                   THEN Set(c, [r EXCEPT !.pc = "fin_exists_out"])
                   ELSE Set(c, Left(r))
           ELSE /\ Set(c, Left([r EXCEPT !.exc = "UnlinkError",
                                         !.res = << 0, 0 >>,
                                         !.resBy = "none"]))
                /\ UNCHANGED << fs, foreignUnlinks >>
        /\ UNCHANGED << binaryOnDisk, started, realesrgan_binary, nextId >>

(***************************************************************************)
(* process_image after upscale_image (lines 112-120), and the end of a     *)
(* request.                                                                *)
(***************************************************************************)
\* lines 112-116 and the endpoint's response (lines 145-149, 162-164);
\* upscaled.save is inside the try block of process_image, what it raises
\* (the process is out of memory) is taken at line 118.  StreamingResponse
\* encodes its headers when it is built, outside every try block: a
\* filename that latin-1 cannot encode makes it raise, and the error leaves
\* upscale_binary.
Encode(c) ==
    LET r == call[c]
    IN  /\ r.pc = "returned"
        /\ r.entry # "direct"
        /\ \/ IF /\ r.entry = "binary"
                 /\ ~EncodeLatin1(ContentDisposition(r.filename)).ok
              THEN Set(c, [r EXCEPT !.pc = "responded",
                                    !.status = ServerError,
                                    !.exc = "UnicodeEncodeError"])
              ELSE Set(c, [r EXCEPT !.pc = "responded", !.status = Success])
           \/ Set(c, [r EXCEPT !.pc = "failed", !.exc = "EncodeError"])
        /\ UNCHANGED << binaryOnDisk, started, realesrgan_binary, fs, nextId,
                        foreignUnlinks >>

\* lines 118-120: every exception inside process_image becomes this status
ProcessFailureStatus(e) == BadRequest

ProcessFailed(c) ==
    LET r == call[c]
    IN  /\ r.pc \in {"failed", "raised"}
        /\ r.entry # "direct"
        /\ Set(c, [r EXCEPT !.pc = "responded",
                            !.status = ProcessFailureStatus(r.exc)])
        /\ UNCHANGED << binaryOnDisk, started, realesrgan_binary, fs, nextId,
                        foreignUnlinks >>

\* the request is over: its locals are gone
Over(r) ==
    \/ r.pc = "responded"
    \/ r.entry = "direct" /\ r.pc \in {"returned", "raised"}

Finish(c) ==
    /\ Over(call[c])
    /\ Set(c, Idle)
    /\ UNCHANGED << binaryOnDisk, started, realesrgan_binary, fs, nextId,
                    foreignUnlinks >>

(***************************************************************************)
(* Specifications.  Spec: the service as app.py runs it, one uvicorn event *)
(* loop.  A handler gives the loop away only at an await: upscale_binary   *)
(* at line 142, between its tests and process_image; nothing yields inside *)
(* process_image.  So any number of requests may be suspended at their     *)
(* read while one request is executed (Alone).  SpecConc: upscale_image    *)
(* called from several threads at once.                                    *)
(***************************************************************************)
\* no other request is being executed: every other slot is free or holds a
\* handler suspended at its await (line 142)
Alone(c) == \A d \in Calls \ {c} : call[d].pc \in {"idle", "read"}

Next ==
    \/ Construct
    \/ \E c \in Calls : Alone(c) /\ UpscaleBinary(c)
    \/ \E c \in Calls : Alone(c) /\ ReadUpload(c)
    \/ \E c \in Calls : Alone(c) /\ UpscaleBase64(c)
    \/ \E c \in Calls : Alone(c) /\ DirectUpscale(c, DirectImages, DirectScales)
    \/ \E c \in Calls : Alone(c) /\ Health(c)
    \/ \E c \in Calls : Alone(c) /\ ProcessImage(c)
    \/ \E c \in Calls : Alone(c) /\ UpscaleDispatch(c)
    \/ \E c \in Calls : Alone(c) /\ FallbackTry(c)
    \/ \E c \in Calls : Alone(c) /\ FallbackExcept(c)
    \/ \E c \in Calls : Alone(c) /\ NcnnCreateInput(c)
    \/ \E c \in Calls : Alone(c) /\ NcnnCreateOutput(c)
    \/ \E c \in Calls : Alone(c) /\ NcnnSave(c)
    \/ \E c \in Calls : Alone(c) /\ StartBinary(c)
    \/ \E c \in Calls : Alone(c) /\ BinaryRuns(c)
    \/ \E c \in Calls : Alone(c) /\ BinaryExit(c)
    \/ \E c \in Calls : Alone(c) /\ BinaryTimeout(c)
    \/ \E c \in Calls : Alone(c) /\ NcnnCheck(c)
    \/ \E c \in Calls : Alone(c) /\ NcnnOutputExists(c)
    \/ \E c \in Calls : Alone(c) /\ NcnnOpenOutput(c)
    \/ \E c \in Calls : Alone(c) /\ FinallyExists(c)
    \/ \E c \in Calls : Alone(c) /\ FinallyUnlink(c)
    \/ \E c \in Calls : Alone(c) /\ Encode(c)
    \/ \E c \in Calls : Alone(c) /\ ProcessFailed(c)
    \/ \E c \in Calls : Alone(c) /\ Finish(c)

Spec == Init /\ [][Next]_vars

ConcImages == { [rgb |-> TRUE, w |-> 64, h |-> 48] }
ConcScales == {4}

ConcNext ==
    \/ Construct
    \/ \E c \in Calls : DirectUpscale(c, ConcImages, ConcScales)
    \/ \E c \in Calls : UpscaleDispatch(c)
    \/ \E c \in Calls : FallbackTry(c)
    \/ \E c \in Calls : FallbackExcept(c)
    \/ \E c \in Calls : NcnnCreateInput(c)
    \/ \E c \in Calls : NcnnCreateOutput(c)
    \/ \E c \in Calls : NcnnSave(c)
    \/ \E c \in Calls : StartBinary(c)
    \/ \E c \in Calls : BinaryRuns(c)
    \/ \E c \in Calls : BinaryExit(c)
    \/ \E c \in Calls : BinaryTimeout(c)
    \/ \E c \in Calls : NcnnCheck(c)
    \/ \E c \in Calls : NcnnOutputExists(c)
    \/ \E c \in Calls : NcnnOpenOutput(c)
    \/ \E c \in Calls : FinallyExists(c)
    \/ \E c \in Calls : FinallyUnlink(c)
    \/ \E c \in Calls : Finish(c)

SpecConc == Init /\ [][ConcNext]_vars

(***************************************************************************)
(* SpecNorm: the normalisation of process_image over a wide range of       *)
(* decoded sizes.  It starts where an endpoint has accepted a request and  *)
(* called process_image, and takes the steps of process_image up to the    *)
(* call of upscale_image.                                                  *)
(***************************************************************************)
MaxLongEdge == 2600

\* Image.open (line 102) refuses an image of more pixels than this
MaxPixels == 178956970

LongEdges ==
    (2040..MaxLongEdge) \cup (16380..16420)
        \cup {3000, 4000, 4096, 5000, 8191, 8192, 13377, 65536, 1000000,
              MaxPixels}
ShortEdges == {1, 2, 3, 161, 1000, 1127}

Decodable(w, h) == w <= MaxPixels \div h

NormSizes ==
    { sz \in { << m, m >> : m \in LongEdges }
                \cup { << m, d >> : m \in LongEdges, d \in ShortEdges }
                \cup { << d, m >> : m \in LongEdges, d \in ShortEdges } :
          Decodable(sz[1], sz[2]) }

NormInit ==
    /\ binaryOnDisk \in BOOLEAN
    /\ started = TRUE
    /\ realesrgan_binary = CheckBinary(BinaryPath, binaryOnDisk)
    /\ fs = [n \in Names |-> NoFile]
    /\ nextId = 2
    /\ foreignUnlinks = 0
    /\ \E sz \in NormSizes, sc \in {2, 4} :
          call = [c \in Calls |->
                    IF c = 1
                    THEN [Idle EXCEPT !.id = 1, !.entry = "binary",
                                      !.scale = sc,
                                      !.payload = [ok |-> TRUE, w |-> sz[1],
                                                   h |-> sz[2]],
                                      !.pc = "process", !.nProc = 1]
                    ELSE Idle]

NormNext ==
    \/ \E c \in Calls : ProcessImage(c)
    \/ \E c \in Calls : call[c].pc = "failed" /\ ProcessFailed(c)

SpecNorm == NormInit /\ [][NormNext]_vars

(***************************************************************************)
(* SpecLive: calls of upscale_image, one at a time, with the progress the  *)
(* interpreter and subprocess.run guarantee.  A call that has started keeps*)
(* executing its statements (CallStep); the external binary is under no    *)
(* obligation to exit or to write (no fairness on BinaryExit, BinaryRuns), *)
(* but                                                                     *)
(* subprocess.run(..., timeout=60) kills it and raises once the time is up *)
(* (line 68), so BinaryTimeout is among the steps that are taken when      *)
(* nothing else ends the wait.  Arrivals of requests are not forced.       *)
(***************************************************************************)
CallStep(c) ==
    \/ UpscaleDispatch(c)
    \/ FallbackTry(c)
    \/ FallbackExcept(c)
    \/ NcnnCreateInput(c)
    \/ NcnnCreateOutput(c)
    \/ NcnnSave(c)
    \/ StartBinary(c)
    \/ BinaryTimeout(c)
    \/ NcnnCheck(c)
    \/ NcnnOutputExists(c)
    \/ NcnnOpenOutput(c)
    \/ FinallyExists(c)
    \/ FinallyUnlink(c)

LiveNext ==
    \/ Construct
    \/ \E c \in Calls : Alone(c) /\ DirectUpscale(c, DirectImages, DirectScales)
    \/ \E c \in Calls : Alone(c) /\ UpscaleDispatch(c)
    \/ \E c \in Calls : Alone(c) /\ FallbackTry(c)
    \/ \E c \in Calls : Alone(c) /\ FallbackExcept(c)
    \/ \E c \in Calls : Alone(c) /\ NcnnCreateInput(c)
    \/ \E c \in Calls : Alone(c) /\ NcnnCreateOutput(c)
    \/ \E c \in Calls : Alone(c) /\ NcnnSave(c)
    \/ \E c \in Calls : Alone(c) /\ StartBinary(c)
    \/ \E c \in Calls : Alone(c) /\ BinaryRuns(c)
    \/ \E c \in Calls : Alone(c) /\ BinaryExit(c)
    \/ \E c \in Calls : Alone(c) /\ BinaryTimeout(c)
    \/ \E c \in Calls : Alone(c) /\ NcnnCheck(c)
    \/ \E c \in Calls : Alone(c) /\ NcnnOutputExists(c)
    \/ \E c \in Calls : Alone(c) /\ NcnnOpenOutput(c)
    \/ \E c \in Calls : Alone(c) /\ FinallyExists(c)
    \/ \E c \in Calls : Alone(c) /\ FinallyUnlink(c)
    \/ \E c \in Calls : Alone(c) /\ Finish(c)

SpecLive ==
    Init /\ [][LiveNext]_vars
         /\ \A c \in Calls : WF_vars(Alone(c) /\ CallStep(c))

(***************************************************************************)
(* Properties.                                                             *)
(***************************************************************************)
Endpoint(r) == r.entry \in {"binary", "base64"}

\* the scale factors the service accepts
AllowedScales == {2, 4, 8}

\* C1: for a normalized image and a scale in {2, 4, 8}, what upscale_image
\* returns has size exactly (w * scale, h * scale), whether it was read
\* from the binary's output file or made by the interpolation fallback.
C1_OutputSizeExact ==
    \A c \in Calls :
        LET r == call[c]
        IN  (r.pc = "returned" /\ r.scale \in AllowedScales
                /\ Max(r.w, r.h) <= 2048)
            => r.res = << r.w * r.scale, r.h * r.scale >>

\* C2: once a call of _upscale_ncnn has returned or raised, no temporary
\* file created by that call exists, on every exit path.
C2_TempFilesGone ==
    \A c \in Calls :
        call[c].ncnnExited
            => \A n \in Names : fs[n].owner # call[c].id

\* C3: a failure of the binary's invocation never leaves upscale_image: the
\* fallback is run once for the same image and scale, and upscale_image
\* ends as that fallback run ends.
C3_EngineFailureAbsorbed ==
    \A c \in Calls :
        LET r == call[c]
        IN  /\ (r.pc = "raised" => r.exc \notin EngineFailures)
            /\ (r.pc \in {"returned", "raised"} /\ r.tryExc \in EngineFailures)
                   => r.nFb = 1
            /\ (r.pc = "returned" /\ r.tryExc \in EngineFailures)
                   => /\ r.resBy = "fallback"
                      /\ r.res = FallbackSize(r.w, r.h, r.scale)
            /\ (r.pc = "raised" /\ r.tryExc \in EngineFailures)
                   => r.exc = "FallbackError"

C3_Witness ==
    \E c \in Calls :
        /\ call[c].pc = "returned"
        /\ call[c].tryExc = "Timeout"
        /\ call[c].nRun = 1
        /\ call[c].resBy = "fallback"

\* C4: on both endpoints a scale outside {2, 4, 8} is answered with 400 and
\* nothing behind the endpoint runs for that request: no process_image, no
\* decoding, no temporary file, no binary, no fallback.
C4_InvalidScaleRejected ==
    \A c \in Calls :
        LET r == call[c]
        IN  (Endpoint(r) /\ r.scale \notin AllowedScales)
            => /\ r.pc = "responded"
               /\ r.status = BadRequest
               /\ r.nProc = 0 /\ r.nDec = 0 /\ r.nUp = 0
               /\ r.nTmp = 0 /\ r.nRun = 0 /\ r.nFb = 0

\* C5: with the binary missing at start-up the service is constructed,
\* realesrgan_binary is None, and every upscale_image call is served by the
\* fallback without a subprocess or a temporary file.
C5_DegradedMode ==
    (started /\ ~binaryOnDisk)
        => /\ realesrgan_binary = None
           /\ \A c \in Calls :
                 LET r == call[c]
                 IN  /\ r.nRun = 0 /\ r.nTmp = 0
                     /\ ~InFlight(r) /\ r.pc # "ncnn_in"
                     /\ r.pc = "returned" => r.resBy = "fallback"

C5_Witness ==
    /\ started /\ ~binaryOnDisk
    /\ \E c \in Calls :
          /\ call[c].pc = "returned"
          /\ call[c].nUp = 1
          /\ call[c].resBy = "fallback"

\* C6: a payload that does not decode is answered by process_image without
\* any engine: upscale_image is not called, no binary, no fallback, no
\* temporary file, and the decoding is tried once.
C6_UndecodableNeverReachesEngine ==
    \A c \in Calls :
        LET r == call[c]
        IN  (Endpoint(r) /\ r.nProc >= 1 /\ ~r.payload.ok)
            => /\ r.nProc = 1 /\ r.nDec <= 1
               /\ r.nUp = 0 /\ r.nRun = 0 /\ r.nFb = 0 /\ r.nTmp = 0
               /\ r.pc \in {"process", "failed", "responded"}
               /\ r.pc = "responded" => r.status = BadRequest

C6_Witness ==
    \E c \in Calls :
        /\ Endpoint(call[c])
        /\ ~call[c].payload.ok
        /\ call[c].nDec = 1
        /\ call[c].pc = "responded"
        /\ call[c].status = BadRequest

\* C7: every image process_image hands to upscale_image has its longest edge
\* at most 2048, and an image that already fits is handed on unchanged.
C7_LongestEdgeCapped ==
    \A c \in Calls :
        LET r == call[c]
        IN  (Endpoint(r) /\ r.nUp >= 1)
            => /\ Max(r.w, r.h) <= 2048
               /\ Max(r.payload.w, r.payload.h) <= 2048
                      => (r.w = r.payload.w /\ r.h = r.payload.h)

C7_Witness ==
    \E c \in Calls :
        /\ Endpoint(call[c])
        /\ call[c].nUp = 1
        /\ call[c].payload.w = 16416 /\ call[c].payload.h = 161
        /\ call[c].w = 2048 /\ call[c].h = 20

\* C8: invalid input is answered with a 4xx status, exhaustion (not even the
\* fallback produced an image) with a 5xx status, and a 5xx status has no
\* other cause.
InvalidInput(r) ==
    \/ r.ctype = None
    \/ ~StartsWithImage(r.ctype)
    \/ r.scale \notin AllowedScales
    \/ ~r.b64Ok
    \/ ~r.payload.ok

Exhausted(r) == r.nUp >= 1 /\ r.exc = "FallbackError"

C8_FailureClassByCause ==
    \A c \in Calls :
        LET r == call[c]
        IN  (Endpoint(r) /\ r.pc = "responded")
            => /\ InvalidInput(r) => r.status \in 400..499
               /\ Exhausted(r) => r.status \in 500..599
               /\ r.status \in 500..599 => Exhausted(r)

\* C9: a programming error raised inside the engine step is not taken and
\* hidden by the fallback chain: upscale_image does not return normally
\* after one, the error reaches the caller.
C9_ProgrammingErrorPropagates ==
    \A c \in Calls :
        call[c].tryExc \in ProgrammingErrors => call[c].pc # "returned"

\* C10: two calls inside _upscale_ncnn never hold the same temporary path,
\* and the cleanup of one never removes a file of another call that is
\* still inside _upscale_ncnn.
Paths(r) == { r.tmpIn, r.tmpOut } \ {0}

C10_TempPathsDisjoint ==
    /\ \A c, d \in Calls :
          (c # d /\ InFlight(call[c]) /\ InFlight(call[d]))
              => Paths(call[c]) \cap Paths(call[d]) = {}
    /\ foreignUnlinks = 0

\* C11: every upscale_image call ends.  A binary that never exits is ended
\* by the timeout of subprocess.run; the timeout is an engine failure, not
\* a fatal error: both temporary files are removed, the fallback runs once
\* and the call returns the fallback's result (it can raise only what the
\* fallback itself raised).
TimedOut(r) == r.exc = "Timeout" \/ r.tryExc = "Timeout"

C11_TimeoutSafe ==
    \A c \in Calls :
        LET r == call[c]
        IN  TimedOut(r)
            => /\ r.nRun = 1
               /\ r.pc \in {"ncnn_finally", "fin_unlink_in", "fin_exists_out",
                            "fin_unlink_out", "except", "returned",
                            "raised", "failed", "responded"}
               /\ r.pc \in {"except", "returned", "raised", "failed",
                            "responded"}
                      => \A n \in Names : fs[n].owner # r.id
               /\ r.pc \in {"returned", "raised", "failed", "responded"}
                      => r.nFb = 1
               /\ r.pc = "returned"
                      => /\ r.resBy = "fallback"
                         /\ r.res = << r.w * r.scale, r.h * r.scale >>
               /\ r.pc = "raised" => r.exc = "FallbackError"

C11_EveryCallEnds ==
    /\ []C11_TimeoutSafe
    /\ \A c \in Calls :
          (call[c].pc = "upscale")
              ~> \/ call[c].pc = "returned"
                 \/ call[c].pc = "raised" /\ call[c].exc = "FallbackError"
    /\ \A c \in Calls :
          (call[c].pc = "ncnn_wait")
              ~> (call[c].pc # "ncnn_wait")

C11_Witness ==
    \E c \in Calls :
        /\ call[c].pc = "returned"
        /\ call[c].tryExc = "Timeout"
        /\ call[c].resBy = "fallback"
        /\ call[c].nTmp = 2
        /\ \A n \in Names : ~Exists(n)

\* C12: the engine availability is computed once, when the one
\* UpscalerService is constructed, and is read-only afterwards: no step of
\* any request (upscale_image, process_image, /health, the upload
\* endpoints), successful or failing, changes realesrgan_binary; a failed
\* invocation of the binary leaves the service on the binary, and /health
\* keeps reporting what the start-up probe found.
C12_HealthTruthful ==
    \A c \in Calls :
        call[c].entry = "health"
            => /\ call[c].binary_found = binaryOnDisk
               /\ call[c].engine = IF binaryOnDisk
                                   THEN "Real-ESRGAN-ncnn-vulkan"
                                   ELSE "Fallback"

C12_AvailabilityReadOnly ==
    /\ [][started => (started' /\ realesrgan_binary' = realesrgan_binary)]_vars
    /\ []C12_HealthTruthful

C12_Witness ==
    /\ started /\ binaryOnDisk
    /\ realesrgan_binary = BinaryPath
    /\ \E c \in Calls :
          /\ call[c].pc = "returned"
          /\ call[c].tryExc = "NcnnFailed"
          /\ call[c].nRun = 1
          /\ call[c].nFb = 1

\* C13: the model named to the binary is a fixed function of the scale:
\* the video model for 2, the 4x general model for 4, for 8 and for every
\* other scale; the command line is
\*   <binary> -i <input> -o <output> -n <model> -s <scale> -f png
\* with the requested scale itself, in decimal, after -s.
VideoModel   == "realesr-animevideov3"
GeneralModel == "realesrgan-x4plus"

C13_ModelAndArguments ==
    \A c \in Calls :
        LET r == call[c]
        IN  r.cmd # << >>
            => /\ r.model = (IF r.scale = 2 THEN VideoModel ELSE GeneralModel)
               /\ Len(r.cmd) = 11
               /\ r.cmd[1] = "/app/realesrgan-ncnn-vulkan"
               /\ << r.cmd[2], r.cmd[4], r.cmd[6], r.cmd[8], r.cmd[10] >>
                      = << "-i", "-o", "-n", "-s", "-f" >>
               /\ r.tmpIn # r.tmpOut
               /\ r.cmd[3] = TmpPath(r.tmpIn)
               /\ r.cmd[3] # r.cmd[5]
               /\ r.cmd[5] = TmpPath(r.tmpOut)
               /\ r.cmd[7] = r.model
               /\ r.cmd[9] = (CASE r.scale = 2 -> "2" [] r.scale = 3 -> "3"
                                 [] r.scale = 4 -> "4" [] r.scale = 8 -> "8")
               /\ r.cmd[11] = "png"

C13_Witness ==
    \E c \in Calls :
        /\ call[c].pc = "ncnn_wait"
        /\ call[c].nRun = 1
        /\ call[c].scale = 3
        /\ call[c].model = GeneralModel
        /\ call[c].cmd[9] = "3"

\* C14: a result made by the interpolation fallback, the binary being
\* unavailable or having failed, has size exactly (w * scale, h * scale) of
\* the normalized image; a 4000x1000 upload at scale 4 with the binary
\* missing is normalized to 2048x512 and upscaled to 8192x2048.
C14_FallbackSizeExact ==
    \A c \in Calls :
        LET r == call[c]
        IN  /\ r.resBy = "fallback"
                   => r.res = << r.w * r.scale, r.h * r.scale >>
            /\ (Endpoint(r) /\ r.nUp >= 1 /\ r.scale = 4
                     /\ r.payload = [ok |-> TRUE, w |-> 4000, h |-> 1000])
                   => /\ << r.w, r.h >> = << 2048, 512 >>
                      /\ (~binaryOnDisk /\ r.status = 200)
                             => /\ r.resBy = "fallback"
                                /\ r.res = << 8192, 2048 >>

C14_Witness ==
    /\ ~binaryOnDisk
    /\ \E c \in Calls :
          /\ Endpoint(call[c])
          /\ call[c].payload = [ok |-> TRUE, w |-> 4000, h |-> 1000]
          /\ call[c].scale = 4
          /\ call[c].status = 200
          /\ call[c].res = << 8192, 2048 >>

\* C15: for an image with max(width, height) > 2048 each new dimension is
\* dim * 2048 / max(width, height) rounded to the nearest integer: the
\* longest edge becomes 2048 within 1, the shorter edge is the nearest
\* integer to its scaled value, and 4096x3 becomes 2048x2.
Oversized(r) == Max(r.payload.w, r.payload.h) > 2048

Abs(x) == IF x < 0 THEN 0 - x ELSE x

\* new is a nearest integer to dim * 2048 / m (a tie may go either way)
Nearest(new, dim, m) ==
    LET q == ScaledQuot(dim, m)
    IN  \/ new = q[1] /\ 2 * q[2] <= m
        \/ new = q[1] + 1 /\ 2 * q[2] >= m

\* new is dim * 2048 / m with its fraction dropped, or one less when the
\* quotient is a whole number
Truncated(new, dim, m) ==
    LET q == ScaledQuot(dim, m)
    IN  \/ new = q[1]
        \/ new = q[1] - 1 /\ q[2] = 0

C15_RoundedToNearest ==
    \A c \in Calls :
        LET r == call[c]
            m == Max(r.payload.w, r.payload.h)
        IN  (Endpoint(r) /\ r.nDec >= 1 /\ r.payload.ok /\ Oversized(r))
            => /\ Abs(Max(r.new_size[1], r.new_size[2]) - 2048) <= 1
               /\ Nearest(r.new_size[1], r.payload.w, m)
               /\ Nearest(r.new_size[2], r.payload.h, m)
               /\ << r.payload.w, r.payload.h >> = << 4096, 3 >>
                      => r.new_size = << 2048, 2 >>

\* C15, amended: each new dimension is dim * 2048 / max(width, height)
\* truncated toward zero, or one less when that quotient is a whole number
\* and the floating-point product falls just below it; the longest edge
\* becomes 2048 or 2047, and 4096x3 becomes 2048x1.
C15_Truncated ==
    \A c \in Calls :
        LET r == call[c]
            m == Max(r.payload.w, r.payload.h)
        IN  (Endpoint(r) /\ r.nDec >= 1 /\ r.payload.ok /\ Oversized(r))
            => /\ Max(r.new_size[1], r.new_size[2]) \in {2047, 2048}
               /\ Truncated(r.new_size[1], r.payload.w, m)
               /\ Truncated(r.new_size[2], r.payload.h, m)
               /\ << r.payload.w, r.payload.h >> = << 4096, 3 >>
                      => r.new_size = << 2048, 1 >>

C15_Witness ==
    \E c \in Calls :
        /\ Endpoint(call[c])
        /\ call[c].nUp = 1
        /\ call[c].nDec = 1
        /\ call[c].payload = [ok |-> TRUE, w |-> 4096, h |-> 3]
        /\ call[c].new_size = << 2048, 1 >>

\* C16: normalization never fails for a decoded image: whatever its width
\* and height (both at least 1), the normalized size has both dimensions at
\* least 1, the resize of process_image is not asked for an empty image,
\* and the request reaches upscale_image instead of being answered with a
\* processing error.
C16_NormalizationNeverFails ==
    \A c \in Calls :
        LET r == call[c]
        IN  (Endpoint(r) /\ r.nDec >= 1 /\ r.payload.ok
                /\ r.payload.w >= 1 /\ r.payload.h >= 1)
            => /\ r.exc # "ResizeError"
               /\ r.nUp >= 1
               /\ r.w >= 1 /\ r.h >= 1

\* C17: within one upscale_image call the binary is started at most once
\* and the interpolation fallback is run at most once, whatever fails; with
\* the binary unavailable, a fallback that failed is not tried again.
C17_EachEngineAtMostOnce ==
    \A c \in Calls :
        /\ call[c].nUp <= 1
        /\ call[c].nRun <= 1
        /\ call[c].nFb <= 1
====
